---------------------------- MODULE Spec2Model ----------------------------
(***************************************************************************)
(* A model of pcdscalc/be_lens_calcs.py: the lens-set enumeration           *)
(* calc_lens_set, the bisection find_energy, the lens_set file helpers,     *)
(* the module defaults with configure_defaults and plan_set, and the        *)
(* formulas calc_focal_length and calc_trans_lens_set called on their own.  *)
(*                                                                          *)
(* Units.  The code computes in double precision; the model computes in     *)
(* exact rationals <<numerator, denominator>> and, where a square root is   *)
(* taken, in fixed point.                                                   *)
(*   radius          1e-6 m, so that np.round(x, 6) rounds to an integer    *)
(*   focal length,                                                          *)
(*   distance        1/682 m ("U"): with the refractive decrement           *)
(*                   delta = 341e-6 / E^2 (E in keV) the focal length of a  *)
(*                   lens of radius R is R * E^2 in these units             *)
(*   beam size       1e-7 m                                                 *)
(*   energy          1/EnergyScale keV: the grid of representable energies  *)
(* Where the rounding of the doubles decides, the focal length is also      *)
(* computed in floating point of MantissaBits significant binary digits.    *)
(***************************************************************************)
EXTENDS Integers, Sequences, FiniteSets, TLC

VARIABLES
    \* calc_lens_set
    cl_pc,        \* "idle", "loop" (in the for loop), "done" (returned)
    cl_in,        \* the arguments of the call
    cl_k,         \* position in nums, the enumeration of the product
    sets, sizes, eff_rads, foc_lens,   \* the four lists the loop builds
    lens_sets,    \* the returned tuple, as a record of four sequences
    cl_cands,     \* the tuples of nums that passed the if of line 769
    \* find_energy
    fe_pc,        \* "idle", "loop", "done"
    fe_in,        \* the arguments of the call
    energy_min, energy_max, energy, focal_length, abs_diff,
    fe_exit,      \* how the loop was left: "none", "condition", "guard"
    fe_iter,      \* passes of the loop body so far: 0, 1, or 2 for more
    \* the lens_set files
    files,        \* the text of every path, as JSON tokens
    exists,       \* the paths that exist
    LENS_SET_FILE,\* the configured path, or NoFile for None
    op,           \* the last call of a file helper and its arguments
    ret,          \* what that call returned or raised
    last_written, \* per path, the list the last set_lens_set_to_file wrote
    \* the module defaults: configure_defaults, plan_set
    defaults,     \* the value of every module default, by its name
    df_op,        \* the last call of configure_defaults or plan_set
    df_ret,       \* "return", or the exception that call raised
    df_passed,    \* per default, the last value configure_defaults was given
    \* the formulas, called on their own
    fl_in, fl_out,  \* calc_focal_length: arguments and result
    tr_in, tr_out   \* calc_trans_lens_set: arguments and result

cl_vars == <<cl_pc, cl_in, cl_k, sets, sizes, eff_rads, foc_lens, lens_sets,
             cl_cands>>
fe_vars == <<fe_pc, fe_in, energy_min, energy_max, energy, focal_length,
             abs_diff, fe_exit, fe_iter>>
fs_vars == <<files, exists, LENS_SET_FILE, op, ret, last_written>>
df_vars == <<defaults, df_op, df_ret, df_passed>>
pu_vars == <<fl_in, fl_out, tr_in, tr_out>>
vars == <<cl_vars, fe_vars, fs_vars, df_vars, pu_vars>>

-----------------------------------------------------------------------------
(* Bounds of the model *)

\* the largest max_each a call is given
MaxEach == 2
\* the largest n_max a call is given
MaxTotal == 3
\* binary digits an energy keeps after the point (a double keeps about 48)
EnergyBits == 4
\* the largest set number get_lens_set is asked for
MaxSetNumber == 4
\* significant binary digits of a floating-point number (a double has 53)
MantissaBits == 9

(* Program constants, in the model's units *)

\* eff_rad0=None, and the radius None of the pair [1, eff_rad0]
None == -1
\* FWHM_UNFOCUSED = 500e-6
FWHM_UNFOCUSED == 500
\* DISK_THICKNESS = 1.0e-3
DISK_THICKNESS == 1000
\* APEX_DISTANCE = 30e-6
APEX_DISTANCE == 30
\* DISTANCE = 4.0
DISTANCE == 2728
\* MATERIAL = 'Be'
MATERIAL == "Be"
\* energy_min = 1.0 and energy_max = 24.0
ENERGY_MIN == 1
ENERGY_MAX == 24
\* abs_diff = 100 before the loop
ABS_DIFF_INIT == 68200

-----------------------------------------------------------------------------
(* Exact rational arithmetic, standing for the code's float arithmetic *)

RECURSIVE GCD(_, _)
GCD(a, b) == IF b = 0 THEN a ELSE GCD(b, a % b)

Abs(x) == IF x < 0 THEN -x ELSE x

\* n/d in lowest terms with a positive denominator
Rat(n, d) ==
    LET g == GCD(Abs(n), Abs(d))
        s == IF d < 0 THEN -1 ELSE 1
    IN  <<s * (n \div g), s * (d \div g)>>

RatInt(n) == <<n, 1>>

\* a + b over the least common denominator
RatAdd(a, b) ==
    LET g == GCD(a[2], b[2])
        l == a[2] * (b[2] \div g)
    IN  Rat(a[1] * (l \div a[2]) + b[1] * (l \div b[2]), l)

RatNeg(a) == <<-a[1], a[2]>>
RatSub(a, b) == RatAdd(a, RatNeg(b))
RatAbs(a) == <<Abs(a[1]), a[2]>>

\* a * b, cancelling across before multiplying
RatMul(a, b) ==
    LET x == Rat(a[1], b[2])
        y == Rat(b[1], a[2])
    IN  Rat(x[1] * y[1], x[2] * y[2])

\* a / b, b # 0 (the code raises ZeroDivisionError there)
RatDiv(a, b) == RatMul(a, Rat(b[2], b[1]))

\* p/q < r/s for non-negative fractions, by their continued fractions
RECURSIVE FracLess(_, _, _, _)
FracLess(p, q, r, s) ==
    LET ip == p \div q
        ir == r \div s
        fp == p % q
        fr == r % s
    IN  IF ip # ir THEN ip < ir
        ELSE IF fr = 0 THEN FALSE
        ELSE IF fp = 0 THEN TRUE
        ELSE FracLess(s, fr, q, fp)

RatLess(a, b) ==
    IF a[1] < 0 /\ b[1] >= 0 THEN TRUE
    ELSE IF a[1] >= 0 /\ b[1] < 0 THEN FALSE
    ELSE IF a[1] < 0 THEN FracLess(-b[1], b[2], -a[1], a[2])
    ELSE FracLess(a[1], a[2], b[1], b[2])

RatLeq(a, b) == ~RatLess(b, a)

\* the integer nearest to a >= 0, halves to the even one (numpy's rint)
RoundHalfEven(a) ==
    LET q == a[1] \div a[2]
        r == a[1] % a[2]
    IN  IF 2 * r < a[2] THEN q
        ELSE IF 2 * r > a[2] THEN q + 1
        ELSE IF q % 2 = 0 THEN q ELSE q + 1

\* the largest integer whose square is at most n
RECURSIVE ISqrt(_)
ISqrt(n) ==
    IF n < 2 THEN n
    ELSE LET h == 2 * ISqrt(n \div 4)
         IN  IF (h + 1) * (h + 1) <= n THEN h + 1 ELSE h

RECURSIVE Pow(_, _)
Pow(b, n) == IF n = 0 THEN 1 ELSE b * Pow(b, n - 1)

RECURSIVE Sum(_)
Sum(s) == IF s = <<>> THEN 0 ELSE Head(s) + Sum(Tail(s))

\* units of energy in one keV
EnergyScale == Pow(2, EnergyBits)

-----------------------------------------------------------------------------
(* The formulas *)

\* LENS_RADII, the module default
LENS_RADII == <<50, 100, 200, 300, 500, 1000, 1500, 2000, 3000>>

\* get_delta: the decrement of the material is xraydb's; the model takes
\* its law far from an absorption edge, delta = 341e-6 / E^2, which in
\* units of 682e-6 is 1 / (2 E^2).  energy is in units of 1/EnergyScale keV.
get_delta(en) == Rat(EnergyScale * EnergyScale, 2 * en * en)

\* focal_length = radius / 2.0 / delta
calc_focal_length_for_single_lens(en, radius) ==
    RatDiv(RatDiv(RatInt(radius), RatInt(2)), get_delta(en))

\* the pairs zip(lens_set[::2], lens_set[1::2])
Pairs(lens_set) ==
    [i \in 1 .. (Len(lens_set) \div 2) |->
        <<lens_set[2 * i - 1], lens_set[2 * i]>>]

\* the for loop of calc_focal_length: f_tot_inverse after the first i pairs
RECURSIVE FTotInverse(_, _, _)
FTotInverse(en, pairs, i) ==
    IF i = 0 THEN RatInt(0)
    ELSE LET num == pairs[i][1]
             radius == pairs[i][2]
             before == FTotInverse(en, pairs, i - 1)
         IN  IF radius # None
             THEN RatAdd(before,
                         RatDiv(RatInt(num),
                                calc_focal_length_for_single_lens(en, radius)))
             ELSE before

\* return 1.0 / f_tot_inverse
calc_focal_length(en, lens_set) ==
    LET pairs == Pairs(lens_set)
    IN  RatDiv(RatInt(1), FTotInverse(en, pairs, Len(pairs)))

\* CONV^2 * 1.2398e-9 / (4 pi) in the model's units, as a fraction: 8.02
WaistCoeff == <<401, 50>>

\* calc_beam_fwhm with source_distance=None.  With w = w_unfocused the code
\* has waist = lam f / (pi w) and rayleigh_range = pi waist^2 / lam, so
\* waist / rayleigh_range = w / f and
\*   size^2 = waist^2 + ((distance - f) w / f)^2 ;
\* size_fwhm = CONV size / 2 turns w into fwhm_unfocused and waist into
\* CONV^2 lam f / (4 pi fwhm_unfocused).  Each term is cut to 1e-7 m.
calc_beam_fwhm(en, lens_set, distance, fwhm_unfocused) ==
    LET fwhm == IF fwhm_unfocused = 0 THEN FWHM_UNFOCUSED ELSE fwhm_unfocused
        dist == IF distance = 0 THEN DISTANCE ELSE distance
        f == calc_focal_length(en, lens_set)
        waist == RatDiv(RatMul(WaistCoeff, f),
                        RatMul(RatInt(fwhm), Rat(en, EnergyScale)))
        spread == RatDiv(RatMul(RatInt(10 * fwhm),
                                RatAbs(RatSub(RatInt(dist), f))), f)
        a == waist[1] \div waist[2]
        b == spread[1] \div spread[2]
    IN  ISqrt(a * a + b * b)

-----------------------------------------------------------------------------
(* calc_lens_set *)

\* nums = product(*([list(range(max_each + 1))] * len(lens_radii))):
\* its k-th tuple (k from 0), the last count varying fastest
NumAt(k, max_each, n) ==
    [i \in 1 .. n |-> (k \div Pow(max_each + 1, n - i)) % (max_each + 1)]

NumsLen(max_each, n) == Pow(max_each + 1, n)

\* lens_radii = lens_radii or LENS_RADII
RadiiOf(in) == IF in.lens_radii = <<>> THEN LENS_RADII ELSE in.lens_radii

\* the total cap written with < for <=
AdmissibleStrict(num, n_max) == Sum(num) < n_max /\ Sum(num) > 0

\* if sum(num) <= n_max and sum(num) > 0
Admissible(num, n_max) == Sum(num) <= n_max /\ Sum(num) > 0

\* lens_set after the loop over zip(num, lens_radii): [tn, tl, tn, tl, ...]
LensSetOf(num, radii) ==
    [j \in 1 .. 2 * Len(num) |->
        IF j % 2 = 1 THEN num[(j + 1) \div 2] ELSE radii[j \div 2]]

\* teff_rad_inv after the loop over zip(num, lens_radii)
RECURSIVE TeffRadInv(_, _, _, _)
TeffRadInv(num, radii, eff_rad0, i) ==
    IF i = 0
    THEN IF eff_rad0 = None THEN RatInt(0) ELSE RatDiv(RatInt(1), RatInt(eff_rad0))
    ELSE RatAdd(TeffRadInv(num, radii, eff_rad0, i - 1), Rat(num[i], radii[i]))

\* teff_rad = np.round(1 / teff_rad_inv, 6)
TeffRad(num, radii, eff_rad0) ==
    RoundHalfEven(RatDiv(RatInt(1), TeffRadInv(num, radii, eff_rad0, Len(num))))

\* the membership test looking at the last entry only
InEffRadsLast(teff_rad, rads) ==
    Len(rads) > 0 /\ rads[Len(rads)] = teff_rad

\* if teff_rad in eff_rads
InEffRads(teff_rad, rads) == \E i \in 1 .. Len(rads) : rads[i] = teff_rad

\* eff_rads.index(teff_rad)
IndexOf(rads, teff_rad) ==
    CHOOSE i \in 1 .. Len(rads) :
        /\ rads[i] = teff_rad
        /\ \A j \in 1 .. i - 1 : rads[j] # teff_rad

\* the comparison of the totals turned round
FewerFlipped(old, num) == Sum(old) < Sum(num)

\* if sum(sets[ind]) > sum(num)
Fewer(old, num) == Sum(old) > Sum(num)

\* the deviation without np.abs
SortKeySigned(size, size_fwhm) == size - size_fwhm

\* the key the result is sorted by: np.abs(sizes - size_fwhm)
SortKey(size, size_fwhm) == Abs(size - size_fwhm)

\* indsort = keys.argsort(): the indices in the order of their keys.  The
\* default kind does not fix the order of equal keys: rev chooses it.
ArgSort(keys, rev) ==
    LET n == Len(keys)
        before(j, i) ==
            \/ keys[j] < keys[i]
            \/ keys[j] = keys[i] /\ (IF rev THEN j > i ELSE j < i)
        rank(i) == Cardinality({j \in 1 .. n : before(j, i)}) + 1
    IN  [p \in 1 .. n |-> CHOOSE i \in 1 .. n : rank(i) = p]

\* a[indsort]
Take(a, indsort) == [p \in 1 .. Len(indsort) |-> a[indsort[p]]]

\* the calls the model makes: explicit radii, and the default radii with
\* at most one lens of each
ClInputs ==
    [energy : {8 * EnergyScale},
     size_fwhm : {1000, 4000},
     distance : {DISTANCE},
     n_max : 1 .. MaxTotal,
     max_each : 1 .. MaxEach,
     lens_radii : {<<50, 100>>, <<200, 300, 500>>},
     fwhm_unfocused : {0},
     eff_rad0 : {None, 40}]
    \cup
    [energy : {8 * EnergyScale},
     size_fwhm : {1000},
     distance : {DISTANCE},
     n_max : {2},
     max_each : {1},
     lens_radii : {<<>>},
     fwhm_unfocused : {0},
     eff_rad0 : {None}]

CurNum == NumAt(cl_k, cl_in.max_each, Len(RadiiOf(cl_in)))
CurTeffRad == TeffRad(CurNum, RadiiOf(cl_in), cl_in.eff_rad0)
InLoop == cl_pc = "loop" /\ cl_k < NumsLen(cl_in.max_each, Len(RadiiOf(cl_in)))

CalcLensSetCall ==
    /\ cl_pc \in {"idle", "done"}
    /\ \E in \in ClInputs : cl_in' = in
    /\ cl_pc' = "loop"
    /\ cl_k' = 0
    /\ sets' = <<>> /\ sizes' = <<>> /\ eff_rads' = <<>> /\ foc_lens' = <<>>
    /\ lens_sets' = [sets |-> <<>>, eff_rads |-> <<>>, sizes |-> <<>>,
                     foc_lens |-> <<>>]
    /\ cl_cands' = {}
    /\ UNCHANGED <<fe_vars, fs_vars, df_vars, pu_vars>>

\* a tuple the if of line 769 leaves out
CalcLensSetSkip ==
    /\ InLoop
    /\ ~Admissible(CurNum, cl_in.n_max)
    /\ cl_k' = cl_k + 1
    /\ UNCHANGED <<cl_pc, cl_in, sets, sizes, eff_rads, foc_lens, lens_sets,
                   cl_cands>>
    /\ UNCHANGED <<fe_vars, fs_vars, df_vars, pu_vars>>

\* a known effective radius, reached with fewer lenses: sets[ind] = num
CalcLensSetReplace ==
    /\ InLoop
    /\ Admissible(CurNum, cl_in.n_max)
    /\ InEffRads(CurTeffRad, eff_rads)
    /\ Fewer(sets[IndexOf(eff_rads, CurTeffRad)], CurNum)
    /\ sets' = [sets EXCEPT ![IndexOf(eff_rads, CurTeffRad)] = CurNum]
    /\ cl_k' = cl_k + 1
    /\ cl_cands' = cl_cands \cup {CurNum}
    /\ UNCHANGED <<cl_pc, cl_in, sizes, eff_rads, foc_lens, lens_sets>>
    /\ UNCHANGED <<fe_vars, fs_vars, df_vars, pu_vars>>

\* a known effective radius, not reached with fewer lenses: continue
CalcLensSetContinue ==
    /\ InLoop
    /\ Admissible(CurNum, cl_in.n_max)
    /\ InEffRads(CurTeffRad, eff_rads)
    /\ ~Fewer(sets[IndexOf(eff_rads, CurTeffRad)], CurNum)
    /\ cl_k' = cl_k + 1
    /\ cl_cands' = cl_cands \cup {CurNum}
    /\ UNCHANGED <<cl_pc, cl_in, sets, sizes, eff_rads, foc_lens, lens_sets>>
    /\ UNCHANGED <<fe_vars, fs_vars, df_vars, pu_vars>>

\* a new effective radius: the four appends
CalcLensSetAppend ==
    /\ InLoop
    /\ Admissible(CurNum, cl_in.n_max)
    /\ ~InEffRads(CurTeffRad, eff_rads)
    /\ LET lens_set == LensSetOf(CurNum, RadiiOf(cl_in)) \o <<1, cl_in.eff_rad0>>
       IN  /\ eff_rads' = Append(eff_rads, CurTeffRad)
           /\ sets' = Append(sets, CurNum)
           /\ sizes' = Append(sizes,
                  calc_beam_fwhm(cl_in.energy, lens_set, cl_in.distance,
                                 IF cl_in.fwhm_unfocused = 0
                                 THEN FWHM_UNFOCUSED ELSE cl_in.fwhm_unfocused))
           /\ foc_lens' = Append(foc_lens,
                                 calc_focal_length(cl_in.energy, lens_set))
    /\ cl_k' = cl_k + 1
    /\ cl_cands' = cl_cands \cup {CurNum}
    /\ UNCHANGED <<cl_pc, cl_in, lens_sets>>
    /\ UNCHANGED <<fe_vars, fs_vars, df_vars, pu_vars>>

\* after the loop: the argsort and the four indexed arrays
CalcLensSetReturn ==
    /\ cl_pc = "loop"
    /\ cl_k = NumsLen(cl_in.max_each, Len(RadiiOf(cl_in)))
    /\ \E rev \in BOOLEAN :
        LET keys == [i \in 1 .. Len(sizes) |-> SortKey(sizes[i], cl_in.size_fwhm)]
            indsort == ArgSort(keys, rev)
        IN  lens_sets' = [sets |-> Take(sets, indsort),
                          eff_rads |-> Take(eff_rads, indsort),
                          sizes |-> Take(sizes, indsort),
                          foc_lens |-> Take(foc_lens, indsort)]
    /\ cl_pc' = "done"
    /\ UNCHANGED <<cl_in, cl_k, sets, sizes, eff_rads, foc_lens, cl_cands>>
    /\ UNCHANGED <<fe_vars, fs_vars, df_vars, pu_vars>>

-----------------------------------------------------------------------------
(* find_energy *)

\* the 0.0001 of the loop condition, in units of 1/682 m
Tolerance == <<341, 5000>>

\* (energy_max + energy_min) written with a minus
MidpointOfWidth(lo, hi) == RoundHalfEven(Rat(hi - lo, 2))

\* (energy_max + energy_min) / 2.0, rounded to a representable energy
Midpoint(lo, hi) == RoundHalfEven(Rat(hi + lo, 2))

\* distance - focal_length without abs
SignedDiff(distance, focal) == RatSub(RatInt(distance), focal)

\* abs(distance - focal_length)
AbsDiff(distance, focal) == RatAbs(RatSub(RatInt(distance), focal))

\* distance = distance or DISTANCE
DistanceOf(in) == IF in.distance = 0 THEN DISTANCE ELSE in.distance

\* the if without its test of focal_length_max
RaiseMinUnguarded(distance, focal_max, focal) ==
    RatLess(focal, RatInt(distance))

\* (distance < focal_length_max) and (distance > focal_length)
RaiseMin(distance, focal_max, focal) ==
    RatLess(RatInt(distance), focal_max) /\ RatLess(focal, RatInt(distance))

\* (distance > focal_length_min) and (distance < focal_length)
LowerMax(distance, focal_min, focal) ==
    RatLess(focal_min, RatInt(distance)) /\ RatLess(RatInt(distance), focal)

\* while abs_diff > 0.0001
LoopCondition == RatLess(Tolerance, abs_diff)

\* the values one pass of the loop body computes before its if
FocalMin == calc_focal_length(energy_min, fe_in.lens_set)
FocalMax == calc_focal_length(energy_max, fe_in.lens_set)
NextEnergy == Midpoint(energy_min, energy_max)
NextFocal == calc_focal_length(NextEnergy, fe_in.lens_set)

\* the calls the model makes: a stack of fifty lenses of radius 1e-6, one of
\* forty lenses of two radii, and one lens of radius 3000e-6
FeInputs ==
    [lens_set : {<<50, 1>>, <<20, 1, 40, 2>>},
     distance : 0 .. 12]
    \cup
    [lens_set : {<<1, 3000>>},
     distance : {0, 100000, 500000}]

FindEnergyCall ==
    /\ fe_pc \in {"idle", "done"}
    /\ \E in \in FeInputs : fe_in' = in
    /\ energy_min' = ENERGY_MIN * EnergyScale
    /\ energy_max' = ENERGY_MAX * EnergyScale
    /\ energy' = Midpoint(ENERGY_MIN * EnergyScale, ENERGY_MAX * EnergyScale)
    /\ abs_diff' = RatInt(ABS_DIFF_INIT)
    /\ focal_length' = RatInt(0)
    /\ fe_exit' = "none"
    /\ fe_iter' = 0
    /\ fe_pc' = "loop"
    /\ UNCHANGED <<cl_vars, fs_vars, df_vars, pu_vars>>

\* a pass that takes the if: energy_min = energy
FindEnergyRaiseMin ==
    /\ fe_pc = "loop" /\ LoopCondition
    /\ RaiseMin(DistanceOf(fe_in), FocalMax, NextFocal)
    /\ energy' = NextEnergy
    /\ focal_length' = NextFocal
    /\ energy_min' = NextEnergy
    /\ abs_diff' = AbsDiff(DistanceOf(fe_in), NextFocal)
    /\ fe_iter' = IF fe_iter < 2 THEN fe_iter + 1 ELSE fe_iter
    /\ UNCHANGED <<fe_pc, fe_in, energy_max, fe_exit>>
    /\ UNCHANGED <<cl_vars, fs_vars, df_vars, pu_vars>>

\* a pass that takes the elif: energy_max = energy
FindEnergyLowerMax ==
    /\ fe_pc = "loop" /\ LoopCondition
    /\ ~RaiseMin(DistanceOf(fe_in), FocalMax, NextFocal)
    /\ LowerMax(DistanceOf(fe_in), FocalMin, NextFocal)
    /\ energy' = NextEnergy
    /\ focal_length' = NextFocal
    /\ energy_max' = NextEnergy
    /\ abs_diff' = AbsDiff(DistanceOf(fe_in), NextFocal)
    /\ fe_iter' = IF fe_iter < 2 THEN fe_iter + 1 ELSE fe_iter
    /\ UNCHANGED <<fe_pc, fe_in, energy_min, fe_exit>>
    /\ UNCHANGED <<cl_vars, fs_vars, df_vars, pu_vars>>

\* a pass that takes the else: the error is logged, break, return energy
FindEnergyGuard ==
    /\ fe_pc = "loop" /\ LoopCondition
    /\ ~RaiseMin(DistanceOf(fe_in), FocalMax, NextFocal)
    /\ ~LowerMax(DistanceOf(fe_in), FocalMin, NextFocal)
    /\ energy' = NextEnergy
    /\ focal_length' = NextFocal
    /\ fe_iter' = IF fe_iter < 2 THEN fe_iter + 1 ELSE fe_iter
    /\ fe_exit' = "guard"
    /\ fe_pc' = "done"
    /\ UNCHANGED <<fe_in, energy_min, energy_max, abs_diff>>
    /\ UNCHANGED <<cl_vars, fs_vars, df_vars, pu_vars>>

\* the loop condition fails: return energy
FindEnergyReturn ==
    /\ fe_pc = "loop" /\ ~LoopCondition
    /\ fe_exit' = "condition"
    /\ fe_pc' = "done"
    /\ UNCHANGED <<fe_in, energy_min, energy_max, energy, focal_length,
                   abs_diff, fe_iter>>
    /\ UNCHANGED <<cl_vars, fs_vars, df_vars, pu_vars>>

-----------------------------------------------------------------------------
(* The lens_set file: get_lens_set, set_lens_set_to_file *)

\* JSON values: a number is [num |-> n], a list is [list |-> <<v1, ...>>]
JNum(n) == [num |-> n]
JList(s) == [list |-> s]
IsList(v) == DOMAIN v = {"list"}

\* the tokens of a JSON text that are no numbers: [ ] ,
LBRACKET == -1
RBRACKET == -2
COMMA == -3

\* json.dumps: the text of a value, token by token
RECURSIVE JsonDumps(_)
RECURSIVE DumpItems(_, _)
DumpItems(items, i) ==
    IF i > Len(items) THEN <<>>
    ELSE (IF i > 1 THEN <<COMMA>> ELSE <<>>)
             \o JsonDumps(items[i]) \o DumpItems(items, i + 1)
JsonDumps(v) ==
    IF IsList(v) THEN <<LBRACKET>> \o DumpItems(v.list, 1) \o <<RBRACKET>>
    ELSE <<v.num>>

\* json.loads: the value that starts at token i and the place after it
RECURSIVE ParseValue(_, _)
RECURSIVE ParseItems(_, _, _)
ParseItems(text, i, acc) ==
    LET r == ParseValue(text, i)
        items == Append(acc, r.val)
    IN  IF text[r.next] = COMMA
        THEN ParseItems(text, r.next + 1, items)
        ELSE [val |-> JList(items), next |-> r.next + 1]
ParseValue(text, i) ==
    IF text[i] = LBRACKET
    THEN IF text[i + 1] = RBRACKET
         THEN [val |-> JList(<<>>), next |-> i + 2]
         ELSE ParseItems(text, i + 1, <<>>)
    ELSE [val |-> JNum(text[i]), next |-> i + 1]

JsonLoads(text) == ParseValue(text, 1).val

\* the paths: the lens_set files and, of each, the backup dated today
Names == {"a", "b"}
Path(name) == [name |-> name, bak |-> FALSE]
BasePaths == {Path(n) : n \in Names}
\* backup_path = filename + str(date.today()) + '.bak'
BackupPath(filename) == [name |-> filename.name, bak |-> TRUE]
Paths == BasePaths \cup {BackupPath(f) : f \in BasePaths}
\* filename=None, LENS_SET_FILE = None
NoFile == [name |-> "None", bak |-> FALSE]

\* the lists the model writes: three sets, two sets, and one flat set
ListsOfSets ==
    {JList(<<JList(<<JNum(3), JNum(100)>>), JList(<<JNum(1), JNum(200)>>),
             JList(<<JNum(2), JNum(500)>>)>>),
     JList(<<JNum(2), JNum(200), JNum(4), JNum(500)>>)}
NoList == JNum(0)

\* what a call returns or raises
Return(v) == [kind |-> "return", val |-> v]
Raised(e) == [kind |-> e, val |-> NoList]

\* set_number_top_to_bot not in range(1, len(sets))
InvalidSetNumber(n, parsed) == ~(n >= 1 /\ n < Len(parsed.list))

\* get_lens_set without the test of the path: a missing file reads as empty
ReadLensSetNoExistsTest(n, filename, fs, ex) ==
    IF Len(fs[filename]) = 0 THEN Raised("ValueError")
    ELSE LET parsed == JsonLoads(fs[filename])
         IN  IF InvalidSetNumber(n, parsed) THEN Raised("ValueError")
             ELSE IF ~IsList(parsed.list[1]) THEN Return(parsed)
             ELSE Return(parsed.list[n])

\* get_lens_set, from the test of the path on (lines 192-218)
ReadLensSet(n, filename, fs, ex) ==
    IF filename \notin ex THEN Raised("FileNotFoundError")
    ELSE IF Len(fs[filename]) = 0 THEN Raised("ValueError")
    ELSE LET parsed == JsonLoads(fs[filename])
         IN  IF InvalidSetNumber(n, parsed) THEN Raised("ValueError")
             ELSE IF ~IsList(parsed.list[1]) THEN Return(parsed)
             ELSE Return(parsed.list[n])

\* the write before the copy
WriteThenBackup(fs, ex, filename, text, make_backup) ==
    LET written == [fs EXCEPT ![filename] = text]
        backup == BackupPath(filename)
    IN  IF make_backup
        THEN [files |-> [written EXCEPT ![backup] = text],
              exists |-> ex \cup {filename, backup}]
        ELSE [files |-> written, exists |-> ex \cup {filename}]

\* set_lens_set_to_file from line 256 on: shutil.copyfile to the backup
\* path, which fails and is logged when filename does not exist, then the
\* write of the text
BackupThenWrite(fs, ex, filename, text, make_backup) ==
    LET backup == BackupPath(filename)
        copied == IF make_backup /\ filename \in ex
                  THEN [files |-> [fs EXCEPT ![backup] = fs[filename]],
                        exists |-> ex \cup {backup}]
                  ELSE [files |-> fs, exists |-> ex]
    IN  [files |-> [copied.files EXCEPT ![filename] = text],
         exists |-> copied.exists \cup {filename}]

Tick == 1 - op.tick

\* get_lens_set(set_number_top_to_bot, filename)
GetLensSet ==
    \E n \in 0 .. MaxSetNumber, filename \in BasePaths \cup {NoFile} :
        /\ op' = [name |-> "get", n |-> n, filename |-> filename,
                  list |-> NoList, make_backup |-> FALSE, tick |-> Tick]
        /\ ret' = IF filename = NoFile /\ LENS_SET_FILE = NoFile
                  THEN Raised("ValueError")
                  ELSE ReadLensSet(n,
                                   IF filename = NoFile
                                   THEN LENS_SET_FILE ELSE filename,
                                   files, exists)
        /\ UNCHANGED <<files, exists, LENS_SET_FILE, last_written>>
        /\ UNCHANGED <<cl_vars, fe_vars, df_vars, pu_vars>>

\* set_lens_set_to_file(list_of_sets, filename, make_backup)
SetLensSetToFile ==
    \E list \in ListsOfSets, filename \in BasePaths \cup {NoFile},
       make_backup \in BOOLEAN :
        /\ op' = [name |-> "set", n |-> 0, filename |-> filename,
                  list |-> list, make_backup |-> make_backup, tick |-> Tick]
        /\ ret' = Return(NoList)
        /\ IF filename = NoFile /\ LENS_SET_FILE = NoFile
           THEN UNCHANGED <<files, exists, last_written>>
           ELSE LET target == IF filename = NoFile
                              THEN LENS_SET_FILE ELSE filename
                    after == BackupThenWrite(files, exists, target,
                                             JsonDumps(list), make_backup)
                IN  /\ files' = after.files
                    /\ exists' = after.exists
                    /\ last_written' = [last_written EXCEPT ![target] = list]
        /\ UNCHANGED LENS_SET_FILE
        /\ UNCHANGED <<cl_vars, fe_vars, df_vars, pu_vars>>

\* a path as a caller spells it: relative to the working directory or
\* absolute; the paths of files, exists and LENS_SET_FILE are absolute
Spelled(path, relative) ==
    [name |-> path.name, bak |-> path.bak, relative |-> relative]

\* os.path.abspath
abspath(spelled) == [name |-> spelled.name, bak |-> spelled.bak]

\* the assignment of LENS_SET_FILE moved before the test of the path
ConfigureAssignFirst(lens_file_path, current, ex) ==
    IF abspath(lens_file_path) \notin ex
    THEN [ret |-> Raised("FileNotFoundError"),
          LENS_SET_FILE |-> abspath(lens_file_path)]
    ELSE [ret |-> Return(abspath(lens_file_path)),
          LENS_SET_FILE |-> abspath(lens_file_path)]

\* the body of configure_lens_set_file: what it returns or raises and the
\* LENS_SET_FILE it leaves, current being LENS_SET_FILE before the call
Configure(lens_file_path, current, ex) ==
    IF abspath(lens_file_path) \notin ex
    THEN [ret |-> Raised("FileNotFoundError"), LENS_SET_FILE |-> current]
    ELSE [ret |-> Return(abspath(lens_file_path)),
          LENS_SET_FILE |-> abspath(lens_file_path)]

\* configure_lens_set_file(lens_file_path)
ConfigureLensSetFile ==
    \E path \in BasePaths, relative \in BOOLEAN :
        LET lens_file_path == Spelled(path, relative)
            after == Configure(lens_file_path, LENS_SET_FILE, exists)
        IN  /\ op' = [name |-> "configure", n |-> 0,
                      filename |-> lens_file_path, list |-> NoList,
                      make_backup |-> FALSE, tick |-> Tick]
            /\ ret' = after.ret
            /\ LENS_SET_FILE' = after.LENS_SET_FILE
            /\ UNCHANGED <<files, exists, last_written>>
            /\ UNCHANGED <<cl_vars, fe_vars, df_vars, pu_vars>>

\* the environment: an empty lens_set file is created
CreateEmptyFile ==
    \E path \in BasePaths :
        /\ path \notin exists
        /\ exists' = exists \cup {path}
        /\ UNCHANGED <<files, LENS_SET_FILE, op, ret, last_written>>
        /\ UNCHANGED <<cl_vars, fe_vars, df_vars, pu_vars>>

-----------------------------------------------------------------------------
(* The focal length in floating point.  The definitions above give the     *)
(* exact value of every expression; these round the result of every        *)
(* division and addition to MantissaBits significant binary digits, as     *)
(* the code's doubles do to 53.                                            *)

\* n/d > 0 scaled by a power of two into the range of the mantissas:
\* <<n1, d1, e>> with n/d = n1/d1 * 2^e and 2^(MantissaBits-1) <= n1/d1 <
\* 2^MantissaBits
RECURSIVE Scaled(_, _, _)
Scaled(n, d, e) ==
    IF (n \div Pow(2, MantissaBits - 1)) < d
    THEN IF d % 2 = 0 THEN Scaled(n, d \div 2, e - 1)
         ELSE Scaled(2 * n, d, e - 1)
    ELSE IF (n \div Pow(2, MantissaBits)) >= d
    THEN IF n % 2 = 0 THEN Scaled(n \div 2, d, e + 1)
         ELSE Scaled(n, 2 * d, e + 1)
    ELSE <<n, d, e>>

\* the floating-point number nearest to a >= 0, halves to the even
\* mantissa
Fl(a) ==
    IF a[1] = 0 THEN a
    ELSE LET s == Scaled(a[1], a[2], 0)
             mantissa == RoundHalfEven(<<s[1], s[2]>>)
         IN  IF s[3] >= 0 THEN RatInt(mantissa * Pow(2, s[3]))
             ELSE Rat(mantissa, Pow(2, -s[3]))

\* delta as the double get_delta returns
get_delta_fl(en) == Fl(get_delta(en))

\* focal_length = radius / 2.0 / delta, radius a floating-point number
calc_focal_length_for_single_lens_fl(en, radius) ==
    Fl(RatDiv(Fl(RatDiv(radius, RatInt(2))), get_delta_fl(en)))

\* f_tot_inverse += 1/fln: the count of the pair left out
RECURSIVE FTotInverseFlNoCount(_, _, _)
FTotInverseFlNoCount(en, pairs, i) ==
    IF i = 0 THEN RatInt(0)
    ELSE LET radius == pairs[i][2]
             before == FTotInverseFlNoCount(en, pairs, i - 1)
         IN  IF radius # None
             THEN Fl(RatAdd(before,
                     Fl(RatDiv(RatInt(1),
                               calc_focal_length_for_single_lens_fl(
                                   en, Fl(RatInt(radius)))))))
             ELSE before

\* the for loop of calc_focal_length: f_tot_inverse += num/fln
RECURSIVE FTotInverseFl(_, _, _)
FTotInverseFl(en, pairs, i) ==
    IF i = 0 THEN RatInt(0)
    ELSE LET num == pairs[i][1]
             radius == pairs[i][2]
             before == FTotInverseFl(en, pairs, i - 1)
         IN  IF radius # None
             THEN Fl(RatAdd(before,
                     Fl(RatDiv(RatInt(num),
                               calc_focal_length_for_single_lens_fl(
                                   en, Fl(RatInt(radius)))))))
             ELSE before

\* return 1.0 / f_tot_inverse; ZeroDivisionError when it is 0
calc_focal_length_fl(en, lens_set) ==
    LET pairs == Pairs(lens_set)
        f_tot_inverse == FTotInverseFl(en, pairs, Len(pairs))
    IN  IF f_tot_inverse[1] = 0 THEN RatInt(None)
        ELSE Fl(RatDiv(RatInt(1), f_tot_inverse))

\* the energies and the lens sets calc_focal_length is called with: two or
\* three pairs of a count and a radius
FlEnergies == {7 * EnergyScale, 8 * EnergyScale, 19 * (EnergyScale \div 2)}
FlRadii == {50, 100, 200, 300, 500}
FlLensSets ==
    {<<n1, r1, n2, r2>> : n1 \in 0 .. MaxEach, r1 \in FlRadii,
                           n2 \in 0 .. MaxEach, r2 \in FlRadii}
    \cup {<<n1, 50, n2, r2, n3, 300>> :
              n1 \in 0 .. MaxEach, n2 \in 0 .. MaxEach, r2 \in {100, 200},
              n3 \in 0 .. MaxEach}

\* calc_focal_length(energy, lens_set), called once
CalcFocalLength ==
    \E en \in FlEnergies, lens_set \in FlLensSets :
        /\ fl_in = <<>>
        /\ fl_in' = [energy |-> en, lens_set |-> lens_set]
        /\ fl_out' = calc_focal_length_fl(en, lens_set)
        /\ UNCHANGED <<tr_in, tr_out>>
        /\ UNCHANGED <<cl_vars, fe_vars, fs_vars, df_vars>>

-----------------------------------------------------------------------------
(* The module defaults: configure_defaults *)

DefaultNames == {"FWHM_UNFOCUSED", "DISK_THICKNESS", "APEX_DISTANCE",
                 "DISTANCE", "MATERIAL", "LENS_RADII"}

\* the module defaults as the import leaves them (lines 23-34)
InitialDefaults ==
    [FWHM_UNFOCUSED |-> FWHM_UNFOCUSED, DISK_THICKNESS |-> DISK_THICKNESS,
     APEX_DISTANCE |-> APEX_DISTANCE, DISTANCE |-> DISTANCE,
     MATERIAL |-> MATERIAL, LENS_RADII |-> LENS_RADII]

\* an argument is <<>> for None (not passed) and <<v>> for the value v;
\* the argument of a default is named here by the default
NoArgs == [n \in DefaultNames |-> <<>>]

\* the values the model passes for a default
Passable(n) ==
    CASE n = "FWHM_UNFOCUSED" -> {0, 400}
      [] n = "DISK_THICKNESS" -> {0, 2000}
      [] n = "APEX_DISTANCE" -> {0, 20}
      [] n = "DISTANCE" -> {0, 1364}
      [] n = "MATERIAL" -> {"", "Si"}
      [] n = "LENS_RADII" -> {<<>>, <<100, 200>>}

\* the calls of the model: no argument, one argument, or all six
CdArgs ==
    {NoArgs}
    \cup UNION {{[NoArgs EXCEPT ![n] = <<v>>] : v \in Passable(n)} :
                   n \in DefaultNames}
    \cup {[FWHM_UNFOCUSED |-> <<400>>, DISK_THICKNESS |-> <<2000>>,
           APEX_DISTANCE |-> <<20>>, DISTANCE |-> <<1364>>,
           MATERIAL |-> <<"Si">>, LENS_RADII |-> <<<<100, 200>>>>],
          [FWHM_UNFOCUSED |-> <<0>>, DISK_THICKNESS |-> <<2000>>,
           APEX_DISTANCE |-> <<0>>, DISTANCE |-> <<1364>>,
           MATERIAL |-> <<"">>, LENS_RADII |-> <<<<>>>>]}

\* bool(v) of Python: 0, 0.0, '' and [] are false
Truthy(n, v) ==
    CASE n = "MATERIAL" -> v # ""
      [] n = "LENS_RADII" -> v # <<>>
      [] OTHER -> v # 0

\* arg or DEFAULT
Or(n, arg, default) ==
    IF arg # <<>> /\ Truthy(n, arg[1]) THEN arg[1] ELSE default

DfTick == 1 - df_op.tick

\* configure_defaults(fwhm_unfocused, disk_thickness, apex_distance,
\*                    distance, material, lens_radii)
ConfigureDefaults ==
    \E args \in CdArgs :
        /\ df_op' = [name |-> "configure_defaults", args |-> args,
                     exclude |-> <<>>, defined |-> FALSE, tick |-> DfTick]
        /\ defaults' = [n \in DefaultNames |-> Or(n, args[n], defaults[n])]
        /\ df_ret' = "return"
        /\ df_passed' = [n \in DefaultNames |->
                            IF args[n] # <<>> THEN args[n] ELSE df_passed[n]]
        /\ UNCHANGED <<cl_vars, fe_vars, fs_vars, pu_vars>>

-----------------------------------------------------------------------------
(* plan_set and the module default LENS_RADII *)

\* list.remove(rad): the list without the first rad
RECURSIVE Remove(_, _)
Remove(list, rad) ==
    IF list = <<>> THEN <<>>
    ELSE IF Head(list) = rad THEN Tail(list)
    ELSE <<Head(list)>> \o Remove(Tail(list), rad)

InList(list, rad) == \E i \in 1 .. Len(list) : list[i] = rad

\* for rad in exclude: t_lens_radii.remove(rad), from the i-th rad on:
\* the list it leaves and whether a remove raised ValueError
RECURSIVE RemoveAll(_, _, _)
RemoveAll(list, exclude, i) ==
    IF i > Len(exclude) THEN [list |-> list, raised |-> FALSE]
    ELSE IF ~InList(list, exclude[i]) THEN [list |-> list, raised |-> TRUE]
    ELSE RemoveAll(Remove(list, exclude[i]), exclude, i + 1)

\* the exclude lists of the model
Excludes == {<<>>, <<50>>, <<100>>, <<3000>>, <<50, 100>>, <<100, 50>>,
             <<200, 3000>>, <<50, 100, 200>>}

\* plan_set(energy, z_offset, z_range, beam_size_unfocused,
\* size_horizontal, exclude=exclude) with size_vertical=None; defined says
\* that none of z_offset, z_range, beam_size_unfocused is None.
\* t_lens_radii = LENS_RADII names the list of the module default, so the
\* removes are made in that list; nothing after them assigns a global.
PlanSet ==
    \E exclude \in Excludes, defined \in BOOLEAN :
        LET removed == RemoveAll(defaults.LENS_RADII, exclude, 1)
        IN  /\ df_op' = [name |-> "plan_set", args |-> NoArgs,
                         exclude |-> exclude, defined |-> defined,
                         tick |-> DfTick]
            /\ IF ~defined
               THEN df_ret' = "return" /\ UNCHANGED defaults
               ELSE /\ defaults' = [defaults EXCEPT !.LENS_RADII = removed.list]
                    /\ df_ret' = IF removed.raised
                                 THEN "ValueError" ELSE "return"
            /\ UNCHANGED df_passed
            /\ UNCHANGED <<cl_vars, fe_vars, fs_vars, pu_vars>>

-----------------------------------------------------------------------------
(* calc_trans_lens_set *)

\* sum(num / radius for num, radius in lens_set), over the first i pairs
RECURSIVE RadiusTotalInv(_, _)
RadiusTotalInv(pairs, i) ==
    IF i = 0 THEN RatInt(0)
    ELSE RatAdd(RadiusTotalInv(pairs, i - 1), Rat(pairs[i][1], pairs[i][2]))

\* sum(num * apex_distance for num, _ in lens_set), over the first i pairs
RECURSIVE ApexDistanceTot(_, _, _)
ApexDistanceTot(pairs, i, apex_distance) ==
    IF i = 0 THEN 0
    ELSE ApexDistanceTot(pairs, i - 1, apex_distance)
             + pairs[i][1] * apex_distance

\* radius_aperture ** 2, radius_aperture being the min over the pairs of
\* np.sqrt(radius * (disk_thickness - apex_distance)): the root is
\* increasing, so it is the least radius * (disk_thickness - apex_distance)
RadiusApertureSquared(pairs, disk_thickness, apex_distance) ==
    LET areas == {pairs[i][2] * (disk_thickness - apex_distance) :
                      i \in 1 .. Len(pairs)}
    IN  CHOOSE a \in areas : \A b \in areas : a <= b

\* calc_trans_for_single_lens: the transmission
\*   (S^2 / sigma^2) exp(-mu apex_distance)
\*       (1 - exp(-radius (disk_thickness - apex_distance) / (2 S^2))),
\*   S^2 = 1 / (sigma^-2 + 2 mu / radius),
\* is kept as the arguments it is a function of.  For one energy, radius
\* and apex_distance it is strictly increasing in disk_thickness, so two
\* transmissions that differ in disk_thickness only are different numbers.
calc_trans_for_single_lens(en, radius, fwhm_unfocused, disk_thickness, apex_distance) ==
    [energy |-> en, radius |-> radius, fwhm_unfocused |-> fwhm_unfocused,
     disk_thickness |-> disk_thickness, apex_distance |-> apex_distance]

\* calc_trans_lens_set(energy, lens_set) with the module defaults: the
\* transmission it returns, or the ZeroDivisionError 1.0 / radius_total_inv
\* raises when every count is 0
calc_trans_lens_set(en, lens_set) ==
    LET pairs == Pairs(lens_set)
        radius_total_inv == RadiusTotalInv(pairs, Len(pairs))
        apex_distance_tot == ApexDistanceTot(pairs, Len(pairs), APEX_DISTANCE)
        radius_aperture_sq ==
            RadiusApertureSquared(pairs, DISK_THICKNESS, APEX_DISTANCE)
    IN  IF radius_total_inv[1] = 0
        THEN [raised |-> "ZeroDivisionError",
              transmission |-> calc_trans_for_single_lens(
                                   en, RatInt(0), 0, RatInt(0), 0)]
        ELSE LET radius_total == RatDiv(RatInt(1), radius_total_inv)
                 equivalent_disk_thickness ==
                     RatAdd(RatDiv(RatInt(radius_aperture_sq), radius_total),
                            RatInt(apex_distance_tot))
             IN  [raised |-> "",
                  transmission |-> calc_trans_for_single_lens(
                                       en, radius_total, FWHM_UNFOCUSED,
                                       equivalent_disk_thickness,
                                       apex_distance_tot)]

\* the lens sets calc_trans_lens_set is called with: two or three pairs
TrRadii == {50, 200, 500, 3000}
TrLensSets ==
    {<<n1, r1, n2, r2>> : n1 \in 0 .. MaxEach, r1 \in TrRadii,
                           n2 \in 0 .. MaxEach, r2 \in TrRadii}
    \cup {<<n1, 200, n2, 500, n3, r3>> :
              n1 \in 0 .. MaxEach, n2 \in 0 .. MaxEach,
              n3 \in 0 .. MaxEach, r3 \in {50, 3000}}

\* calc_trans_lens_set(energy, lens_set), called once
CalcTransLensSet ==
    \E en \in {8 * EnergyScale}, lens_set \in TrLensSets :
        /\ tr_in = <<>>
        /\ tr_in' = [energy |-> en, lens_set |-> lens_set]
        /\ tr_out' = calc_trans_lens_set(en, lens_set)
        /\ UNCHANGED <<fl_in, fl_out>>
        /\ UNCHANGED <<cl_vars, fe_vars, fs_vars, df_vars>>

-----------------------------------------------------------------------------
(* The specifications *)

ClInit ==
    /\ cl_pc = "idle"
    /\ cl_in = [energy |-> 0, size_fwhm |-> 0, distance |-> 0, n_max |-> 0,
                max_each |-> 0, lens_radii |-> <<>>, fwhm_unfocused |-> 0,
                eff_rad0 |-> None]
    /\ cl_k = 0
    /\ sets = <<>> /\ sizes = <<>> /\ eff_rads = <<>> /\ foc_lens = <<>>
    /\ lens_sets = [sets |-> <<>>, eff_rads |-> <<>>, sizes |-> <<>>,
                    foc_lens |-> <<>>]
    /\ cl_cands = {}

FeInit ==
    /\ fe_pc = "idle"
    /\ fe_in = [lens_set |-> <<>>, distance |-> 0]
    /\ energy_min = 0 /\ energy_max = 0 /\ energy = 0
    /\ focal_length = <<0, 1>> /\ abs_diff = <<0, 1>>
    /\ fe_exit = "none"
    /\ fe_iter = 0

FsInit ==
    /\ files = [p \in Paths |-> <<>>]
    /\ exists = {}
    /\ LENS_SET_FILE = NoFile
    /\ op = [name |-> "none", n |-> 0, filename |-> NoFile, list |-> NoList,
             make_backup |-> FALSE, tick |-> 0]
    /\ ret = Return(NoList)
    /\ last_written = [p \in Paths |-> NoList]

DfInit ==
    /\ defaults = InitialDefaults
    /\ df_op = [name |-> "none", args |-> NoArgs, exclude |-> <<>>,
                defined |-> FALSE, tick |-> 0]
    /\ df_ret = "return"
    /\ df_passed = NoArgs

PuInit ==
    /\ fl_in = <<>> /\ fl_out = <<0, 1>>
    /\ tr_in = <<>>
    /\ tr_out = [raised |-> "",
                 transmission |-> calc_trans_for_single_lens(
                                      0, RatInt(0), 0, RatInt(0), 0)]

Init == ClInit /\ FeInit /\ FsInit /\ DfInit /\ PuInit

LensNext ==
    \/ CalcLensSetCall
    \/ CalcLensSetSkip
    \/ CalcLensSetReplace
    \/ CalcLensSetContinue
    \/ CalcLensSetAppend
    \/ CalcLensSetReturn

\* the calls of calc_lens_set
LensSpec == Init /\ [][LensNext]_vars

EnergyNext ==
    \/ FindEnergyCall
    \/ FindEnergyRaiseMin
    \/ FindEnergyLowerMax
    \/ FindEnergyGuard
    \/ FindEnergyReturn

\* the calls of find_energy
EnergySpec == Init /\ [][EnergyNext]_vars

FileNext ==
    \/ GetLensSet
    \/ SetLensSetToFile
    \/ ConfigureLensSetFile
    \/ CreateEmptyFile

\* the calls of the lens_set file helpers
FileSpec == Init /\ [][FileNext]_vars

DefaultsNext == ConfigureDefaults

\* the calls of configure_defaults
DefaultsSpec == Init /\ [][DefaultsNext]_vars

PlanNext == PlanSet

\* the calls of plan_set
PlanSpec == Init /\ [][PlanNext]_vars

TransNext == CalcTransLensSet

\* the calls of calc_trans_lens_set
TransSpec == Init /\ [][TransNext]_vars

FocalNext == CalcFocalLength

\* the calls of calc_focal_length
FocalSpec == Init /\ [][FocalNext]_vars

-----------------------------------------------------------------------------
(* The claims about calc_lens_set *)

\* the Cartesian product {0..max_each}^len(lens_radii) of a call
Product(in) == [1 .. Len(RadiiOf(in)) -> 0 .. in.max_each]

\* its tuples with a total count between 1 and n_max
InCaps(in) == {num \in Product(in) : Sum(num) >= 1 /\ Sum(num) <= in.n_max}

ClReturned == cl_pc = "done"

\* C1: the result of calc_lens_set is in the order of the absolute deviation
\* of the sizes from size_fwhm, no entry being further from it than the
\* next, and one permutation of the candidates gives all four arrays: each
\* returned index takes its four entries from one candidate, and no two
\* returned indices take theirs from the same candidate.
C1_SortedByDeviation ==
    ClReturned =>
        LET r == lens_sets
            n == Len(r.sizes)
        IN  /\ \A i \in 1 .. n - 1 :
                   Abs(r.sizes[i] - cl_in.size_fwhm)
                       <= Abs(r.sizes[i + 1] - cl_in.size_fwhm)
            /\ n = Len(sizes) /\ Len(r.sets) = n
            /\ Len(r.eff_rads) = n /\ Len(r.foc_lens) = n
            /\ \A i \in 1 .. n :
                   \E k \in 1 .. n :
                       /\ r.sets[i] = sets[k]
                       /\ r.eff_rads[i] = eff_rads[k]
                       /\ r.sizes[i] = sizes[k]
                       /\ r.foc_lens[i] = foc_lens[k]
                       /\ \A j \in 1 .. n :
                              r.eff_rads[j] = eff_rads[k] => j = i

\* a result whose order is not the candidates' order, with sizes on both
\* sides of the target
C1_Witness ==
    /\ ClReturned
    /\ lens_sets.sizes # sizes
    /\ \E i, j \in 1 .. Len(sizes) :
           sizes[i] < cl_in.size_fwhm /\ sizes[j] > cl_in.size_fwhm

\* C2: no rounded effective radius is returned twice, and the returned ones
\* are exactly those of the tuples within the caps.
C2_Deduplicated ==
    ClReturned =>
        LET r == lens_sets.eff_rads
        IN  /\ \A i, j \in 1 .. Len(r) : r[i] = r[j] => i = j
            /\ {r[i] : i \in 1 .. Len(r)}
                   = {TeffRad(num, RadiiOf(cl_in), cl_in.eff_rad0) :
                          num \in InCaps(cl_in)}

\* a result in which several tuples shared a rounded effective radius
C2_Witness ==
    /\ ClReturned
    /\ Len(lens_sets.eff_rads) + 2 <= Cardinality(InCaps(cl_in))

\* C3: the tuple returned for a rounded effective radius rounds to it, and
\* no tuple within the caps that rounds to it has fewer lenses in total.
C3_FewestLenses ==
    ClReturned =>
        \A i \in 1 .. Len(lens_sets.sets) :
            /\ lens_sets.sets[i] \in InCaps(cl_in)
            /\ TeffRad(lens_sets.sets[i], RadiiOf(cl_in), cl_in.eff_rad0)
                   = lens_sets.eff_rads[i]
            /\ \A num \in InCaps(cl_in) :
                   TeffRad(num, RadiiOf(cl_in), cl_in.eff_rad0)
                       = lens_sets.eff_rads[i]
                   => Sum(lens_sets.sets[i]) <= Sum(num)

\* a result holding a tuple that replaced an earlier one with more lenses
C3_Witness ==
    /\ ClReturned
    /\ \E i \in 1 .. Len(lens_sets.sets) :
       \E k1, k2 \in 0 .. NumsLen(cl_in.max_each, Len(RadiiOf(cl_in))) - 1 :
           LET n1 == NumAt(k1, cl_in.max_each, Len(RadiiOf(cl_in)))
               n2 == NumAt(k2, cl_in.max_each, Len(RadiiOf(cl_in)))
           IN  /\ k1 < k2
               /\ n2 = lens_sets.sets[i]
               /\ n1 \in InCaps(cl_in)
               /\ Sum(n1) > Sum(n2)
               /\ TeffRad(n1, RadiiOf(cl_in), cl_in.eff_rad0)
                      = lens_sets.eff_rads[i]

\* C4: the tuples calc_lens_set treats as candidates are those of the
\* product with a total between 1 and n_max; the all-zero tuple is none of
\* them, the sum of count/radius of a candidate is not zero, and every
\* returned set keeps both caps.
C4_CandidatesWithinCaps ==
    /\ cl_cands \subseteq InCaps(cl_in)
    /\ \A num \in cl_cands :
           /\ \E i \in 1 .. Len(num) : num[i] # 0
           /\ TeffRadInv(num, RadiiOf(cl_in), cl_in.eff_rad0, Len(num))[1] # 0
    /\ \A i \in 1 .. Len(sets) : sets[i] \in cl_cands
    /\ ClReturned =>
           /\ cl_cands = InCaps(cl_in)
           /\ \A i \in 1 .. Len(lens_sets.sets) :
                  LET num == lens_sets.sets[i]
                  IN  /\ \A j \in 1 .. Len(num) : num[j] <= cl_in.max_each
                      /\ Sum(num) >= 1 /\ Sum(num) <= cl_in.n_max

\* a result of a call whose caps both left tuples of the product out: the
\* all-zero one and some above n_max
C4_Witness ==
    /\ ClReturned
    /\ \E num \in Product(cl_in) : Sum(num) > cl_in.n_max
    /\ \E i \in 1 .. Len(lens_sets.sets) : Sum(lens_sets.sets[i]) = cl_in.n_max
    /\ cl_in.n_max > 1

\* the lens_set calc_lens_set computes the beam size and the focal length
\* of the tuple num with
FullLensSet(num) == LensSetOf(num, RadiiOf(cl_in)) \o <<1, cl_in.eff_rad0>>

\* C16: the four arrays calc_lens_set returns describe the same candidate
\* at each index: eff_rads[i] is the rounded effective radius of sets[i],
\* and sizes[i] and foc_lens[i] are the beam size and the focal length of
\* sets[i], also when sets[i] replaced an earlier candidate.
C16_ArraysDescribeSameCandidate ==
    ClReturned =>
        \A i \in 1 .. Len(lens_sets.sets) :
            /\ lens_sets.eff_rads[i] =
                   TeffRad(lens_sets.sets[i], RadiiOf(cl_in), cl_in.eff_rad0)
            /\ lens_sets.sizes[i] =
                   calc_beam_fwhm(cl_in.energy, FullLensSet(lens_sets.sets[i]),
                                  cl_in.distance, cl_in.fwhm_unfocused)
            /\ lens_sets.foc_lens[i] =
                   calc_focal_length(cl_in.energy,
                                     FullLensSet(lens_sets.sets[i]))

-----------------------------------------------------------------------------
(* The claims about find_energy *)

\* C5: when find_energy leaves its loop through the loop condition, the
\* focal length at the energy it returns is within 0.0001 of the distance.
C5_ReturnedEnergyWithinTolerance ==
    (fe_pc = "done" /\ fe_exit = "condition") =>
        RatLeq(RatAbs(RatSub(RatInt(DistanceOf(fe_in)),
                             calc_focal_length(energy, fe_in.lens_set))),
               Tolerance)

\* a return through the loop condition after several passes
C5_Witness ==
    /\ fe_pc = "done" /\ fe_exit = "condition"
    /\ fe_iter = 2
    /\ energy_min > ENERGY_MIN * EnergyScale
    /\ energy_max < ENERGY_MAX * EnergyScale

\* C6: every pass of the loop of find_energy leaves the loop or narrows the
\* interval [energy_min, energy_max], to half its width up to the rounding
\* of the midpoint; so no pass leaves the state of the search as it was and
\* the loop ends.
C6_EveryPassNarrowsOrLeaves ==
    (fe_pc = "loop" /\ LoopCondition) =>
        LET d == DistanceOf(fe_in)
            width == energy_max - energy_min
        IN  \/ /\ ~RaiseMin(d, FocalMax, NextFocal)
               /\ ~LowerMax(d, FocalMin, NextFocal)
            \/ /\ RaiseMin(d, FocalMax, NextFocal)
               /\ energy_max - NextEnergy < width
               /\ 2 * (energy_max - NextEnergy) <= width + 1
            \/ /\ ~RaiseMin(d, FocalMax, NextFocal)
               /\ LowerMax(d, FocalMin, NextFocal)
               /\ NextEnergy - energy_min < width
               /\ 2 * (NextEnergy - energy_min) <= width + 1

\* C7: a pass in which the distance satisfies neither branch ends the call:
\* find_energy returns the midpoint of the interval, which it leaves as it
\* was, and on the first pass that midpoint is 12.5.
C7_GuardReturnsMidpoint ==
    [][ ( /\ fe_pc = "loop"
          /\ RatLess(Tolerance, abs_diff)
          /\ ~( /\ RatLess(RatInt(DistanceOf(fe_in)), FocalMax)
                /\ RatLess(NextFocal, RatInt(DistanceOf(fe_in))) )
          /\ ~( /\ RatLess(FocalMin, RatInt(DistanceOf(fe_in)))
                /\ RatLess(RatInt(DistanceOf(fe_in)), NextFocal) ) )
        => ( /\ fe_pc' = "done"
             /\ fe_exit' = "guard"
             /\ Abs(2 * energy' - (energy_min + energy_max)) <= 1
             /\ energy_min' = energy_min /\ energy_max' = energy_max
             /\ (fe_iter = 0 =>
                    2 * energy' = (ENERGY_MIN + ENERGY_MAX) * EnergyScale) )
      ]_vars

\* a call with a distance beyond the focal length at 24, which returned 12.5
\* from its first pass
C7_Witness ==
    /\ fe_pc = "done" /\ fe_exit = "guard"
    /\ fe_iter = 1
    /\ 2 * energy = 25 * EnergyScale
    /\ RatLess(calc_focal_length(ENERGY_MAX * EnergyScale, fe_in.lens_set),
               RatInt(DistanceOf(fe_in)))

-----------------------------------------------------------------------------
(* The claims about the lens_set file *)

\* the path a call given filename reads or writes, NoFile when there is none
TargetOf(filename) == IF filename = NoFile THEN LENS_SET_FILE ELSE filename

\* a list of lens-set lists, as set_lens_set_to_file documents its argument
IsListOfSets(v) ==
    /\ IsList(v)
    /\ Len(v.list) > 0
    /\ \A i \in 1 .. Len(v.list) : IsList(v.list[i])

\* this step is a call of the helper called name
CallOf(name) == op'.tick # op.tick /\ op'.name = name

\* C8: on a file that holds a list of sets, get_lens_set returns for every
\* set number from 1 to the number of sets and raises ValueError for every
\* other set number.
C8_SetNumbersOneToCount ==
    [][ ( /\ CallOf("get")
          /\ TargetOf(op'.filename) \in exists
          /\ Len(files[TargetOf(op'.filename)]) > 0
          /\ IsListOfSets(JsonLoads(files[TargetOf(op'.filename)])) )
        => LET count == Len(JsonLoads(files[TargetOf(op'.filename)]).list)
           IN  IF op'.n >= 1 /\ op'.n <= count
               THEN ret'.kind = "return"
               ELSE ret'.kind = "ValueError"
      ]_vars

\* C9: get_lens_set(n, f) returns list_of_sets[n-1] for every n from 1 to
\* len(list_of_sets), list_of_sets being the list of lens-set lists the
\* last set_lens_set_to_file wrote to f.
C9_WriteThenRead ==
    [][ ( /\ CallOf("get")
          /\ TargetOf(op'.filename) # NoFile
          /\ IsListOfSets(last_written[TargetOf(op'.filename)])
          /\ op'.n >= 1
          /\ op'.n <= Len(last_written[TargetOf(op'.filename)].list) )
        => ret' = Return(last_written[TargetOf(op'.filename)].list[op'.n])
      ]_vars

\* C10: set_lens_set_to_file leaves the JSON of list_of_sets in the file;
\* with make_backup=True on an existing file the dated backup then holds
\* what the file held before the call, and with make_backup=False no backup
\* file is created or changed.
C10_BackupBeforeOverwrite ==
    [][ (CallOf("set") /\ TargetOf(op'.filename) # NoFile)
        => LET target == TargetOf(op'.filename)
           IN  /\ target \in exists'
               /\ files'[target] = JsonDumps(op'.list)
               /\ (op'.make_backup /\ target \in exists) =>
                      /\ BackupPath(target) \in exists'
                      /\ files'[BackupPath(target)] = files[target]
               /\ ~op'.make_backup =>
                      \A f \in BasePaths :
                          /\ files'[BackupPath(f)] = files[BackupPath(f)]
                          /\ BackupPath(f) \in exists' <=> BackupPath(f) \in exists
      ]_vars

\* after a call with make_backup=True that replaced one list by another:
\* the backup holds a list and the file holds the other, just written
C10_Witness ==
    /\ op.name = "set" /\ op.make_backup
    /\ TargetOf(op.filename) # NoFile
    /\ BackupPath(TargetOf(op.filename)) \in exists
    /\ Len(files[BackupPath(TargetOf(op.filename))]) > 0
    /\ files[BackupPath(TargetOf(op.filename))] # files[TargetOf(op.filename)]
    /\ files[TargetOf(op.filename)] = JsonDumps(op.list)

\* C11: get_lens_set fails without side effects. It raises ValueError when
\* no filename is given and no lens_set file is configured,
\* FileNotFoundError when the path does not exist and ValueError when the
\* file is empty; no call of it changes a file or LENS_SET_FILE; and a call
\* without filename is answered from the configured file: what it returns
\* is the list written to that file or one of its sets.
C11_GetFailsWithoutSideEffects ==
    [][ CallOf("get")
        => LET target == TargetOf(op'.filename)
           IN  /\ files' = files
               /\ exists' = exists
               /\ LENS_SET_FILE' = LENS_SET_FILE
               /\ (target = NoFile) => ret' = Raised("ValueError")
               /\ (target # NoFile /\ target \notin exists)
                      => ret' = Raised("FileNotFoundError")
               /\ (target \in exists /\ Len(files[target]) = 0)
                      => ret' = Raised("ValueError")
               /\ (op'.filename = NoFile /\ ret'.kind = "return")
                      => LET written == last_written[LENS_SET_FILE]
                         IN  \/ ret'.val = written
                             \/ \E i \in 1 .. Len(written.list) :
                                    ret'.val = written.list[i]
      ]_vars

\* after a get_lens_set of a path that does not exist, while another file is
\* configured and holds a list
C11_Witness ==
    /\ op.name = "get"
    /\ ret = Raised("FileNotFoundError")
    /\ op.filename # NoFile /\ op.filename \notin exists
    /\ LENS_SET_FILE # NoFile
    /\ Len(files[LENS_SET_FILE]) > 0

\* C14: configure_lens_set_file on a path that does not exist raises
\* FileNotFoundError and leaves LENS_SET_FILE as it was; on a path that
\* exists it sets LENS_SET_FILE to the absolute path and returns it.
C14_ConfigureKeepsOrSetsPath ==
    [][ CallOf("configure")
        => LET absolute == Path(op'.filename.name)
           IN  IF absolute \in exists
               THEN LENS_SET_FILE' = absolute /\ ret' = Return(absolute)
               ELSE /\ ret' = Raised("FileNotFoundError")
                    /\ LENS_SET_FILE' = LENS_SET_FILE
      ]_vars

\* after a configure_lens_set_file of a path that does not exist, with
\* another path configured before and still in effect
C14_Witness ==
    /\ op.name = "configure"
    /\ ret = Raised("FileNotFoundError")
    /\ LENS_SET_FILE # NoFile
    /\ LENS_SET_FILE.name # op.filename.name
    /\ LENS_SET_FILE \in exists

-----------------------------------------------------------------------------
(* The claims about the formulas *)

\* the pairs of a lens set in another order
Reordered(lens_set, perm) ==
    [j \in 1 .. Len(lens_set) |->
        lens_set[2 * perm[(j + 1) \div 2] - (j % 2)]]
Perms(k) == {f \in [1 .. k -> 1 .. k] : \A i, j \in 1 .. k : f[i] = f[j] => i = j}

\* R_eff = 1 / sum(count_i / radius_i), computed in floating point
RECURSIVE SumCountOverRadius(_, _)
SumCountOverRadius(pairs, i) ==
    IF i = 0 THEN RatInt(0)
    ELSE Fl(RatAdd(SumCountOverRadius(pairs, i - 1),
                   Fl(RatDiv(RatInt(pairs[i][1]), Fl(RatInt(pairs[i][2]))))))
EffectiveRadius(lens_set) ==
    Fl(RatDiv(RatInt(1), SumCountOverRadius(Pairs(lens_set),
                                            Len(Pairs(lens_set)))))

\* a and b differ by at most 4 (k + 1) units of the last place of b
WithinRounding(a, b, k) ==
    RatLeq(RatAbs(RatSub(a, b)),
           RatMul(Rat(4 * (k + 1), Pow(2, MantissaBits)), b))

\* a call of calc_focal_length with at least one non-zero count returned
FlReturned ==
    /\ fl_in # <<>>
    /\ \E i \in 1 .. (Len(fl_in.lens_set) \div 2) : fl_in.lens_set[2 * i - 1] > 0
    /\ fl_out # RatInt(None)

\* C12 as stated: calc_focal_length(E, lens_set) equals
\* calc_focal_length_for_single_lens(E, R_eff), R_eff = 1 / sum(count_i /
\* radius_i), and is the same for every order of the pairs.
C12_EqualsSingleLensOfEffectiveRadius ==
    FlReturned =>
        /\ fl_out = calc_focal_length_for_single_lens_fl(
                        fl_in.energy, EffectiveRadius(fl_in.lens_set))
        /\ \A perm \in Perms(Len(fl_in.lens_set) \div 2) :
               calc_focal_length_fl(fl_in.energy,
                                    Reordered(fl_in.lens_set, perm)) = fl_out

\* C12, amended: the two agree, and the orders of the pairs agree, up to
\* the rounding of the floating-point operations: the relative difference
\* is at most 4 (k + 1) units of the last place for k pairs.
C12_SingleLensOfEffectiveRadiusUpToRounding ==
    FlReturned =>
        LET k == Len(fl_in.lens_set) \div 2
        IN  /\ WithinRounding(fl_out,
                              calc_focal_length_for_single_lens_fl(
                                  fl_in.energy,
                                  EffectiveRadius(fl_in.lens_set)), k)
            /\ \A perm \in Perms(k) :
                   WithinRounding(calc_focal_length_fl(
                                      fl_in.energy,
                                      Reordered(fl_in.lens_set, perm)),
                                  fl_out, k)

\* a set of three pairs with non-zero counts whose focal length is not
\* the one of the single lens to the last digit
C12_Witness ==
    /\ FlReturned
    /\ Len(fl_in.lens_set) = 6
    /\ \A i \in 1 .. 3 : fl_in.lens_set[2 * i - 1] > 0
    /\ fl_out # calc_focal_length_for_single_lens_fl(
                     fl_in.energy, EffectiveRadius(fl_in.lens_set))

\* C18: a pair with count 0 does not affect calc_trans_lens_set: the
\* transmission of a lens set with a pair (0, r) added is the transmission
\* of the lens set.
C18_ZeroCountPairIgnored ==
    (tr_in # <<>> /\ tr_out.raised = "") =>
        \A r \in TrRadii :
            calc_trans_lens_set(tr_in.energy, tr_in.lens_set \o <<0, r>>)
                = tr_out

-----------------------------------------------------------------------------
(* The claims about the module defaults *)

\* this step is a call of name
DfCallOf(name) == df_op'.tick # df_op.tick /\ df_op'.name = name

\* C13: configure_defaults sets every default an argument is passed for to
\* the passed value and leaves every other default unchanged; so each
\* default is the last value passed for it, or its initial value if none
\* was passed.
C13_ConfigureSetsExactlyThePassed ==
    /\ [][ DfCallOf("configure_defaults")
           => \A n \in DefaultNames :
                  defaults'[n] = IF df_op'.args[n] # <<>>
                                 THEN df_op'.args[n][1] ELSE defaults[n]
         ]_vars
    /\ [](\A n \in DefaultNames :
              defaults[n] = IF df_passed[n] # <<>>
                            THEN df_passed[n][1] ELSE InitialDefaults[n])

\* C17: plan_set does not modify the module default LENS_RADII: after a
\* call LENS_RADII is what it was before, and a call with the arguments of
\* the call before it, exclude not empty, ends as that call did.
C17_PlanSetLeavesLensRadii ==
    [][ DfCallOf("plan_set")
        => /\ defaults'.LENS_RADII = defaults.LENS_RADII
           /\ ( /\ df_op.name = "plan_set"
                /\ df_op'.exclude = df_op.exclude
                /\ df_op'.defined = df_op.defined
                /\ df_op'.exclude # <<>> )
              => df_ret' = df_ret
      ]_vars

=============================================================================
